---- MODULE Spec2Model ----
(***************************************************************************)
(* Model of etl_bank_project.py: the extract / transform / load / report   *)
(* pipeline for the table of the largest banks by market capitalization.   *)
(*                                                                         *)
(* Decimal numbers are records [m, e] standing for m / 10^e, kept in       *)
(* normal form (no trailing zero in the fraction); a missing value (NaN)   *)
(* is the record NaN.  Cell texts are sequences of one-character strings.  *)
(* A DataFrame is a record [cols, rows]: the ordered column names and the  *)
(* rows, each a function from column name to value.  DataFrame objects     *)
(* live in a heap, so that two Python names bound to one object alias.     *)
(***************************************************************************)
EXTENDS Integers, Sequences, FiniteSets, TLC

VARIABLES
    pc,              \* position in main, or "harness" when the functions are called freely
    page,            \* what the HTTP GET of WIKIPEDIA_URL yields
    ratesFile,       \* the content of EXCHANGE_RATES_CSV
    heap,            \* the DataFrame objects created so far: id -> DataFrame
    df,              \* main's df: a heap reference or None
    df_transformed,  \* main's df_transformed: a heap reference or None
    db_success,      \* main's db_success
    results,         \* what the last run_queries call returned
    table,           \* table Largest_banks of DATABASE_PATH, or NoTable
    csvFile,         \* the content of CSV_OUTPUT_PATH, or NoFile
    conns,           \* number of sqlite3 connections opened and not closed
    log,             \* code_log.txt: the messages appended so far
    console,         \* what has been printed
    calls            \* the calls made so far, in order, each with what it returned

vars == <<pc, page, ratesFile, heap, df, df_transformed, db_success, results,
          table, csvFile, conns, log, console, calls>>

-----------------------------------------------------------------------------
(* Bounds *)

MaxBanks == 2
MaxRateRows == 3
MaxCellLen == 2
MaxCalls == 3

-----------------------------------------------------------------------------
(* Decimal numbers *)

NaN == [m |-> 0, e |-> -1]

RECURSIVE Pow10(_)
Pow10(k) == IF k <= 0 THEN 1 ELSE 10 * Pow10(k - 1)

RECURSIVE Norm(_)
Norm(n) ==
    IF n.e > 0 /\ n.m % 10 = 0 THEN Norm([m |-> n.m \div 10, e |-> n.e - 1]) ELSE n

Num(mant, exp) == Norm([m |-> mant, e |-> exp])

\* Series * scalar, elementwise: a missing value stays missing.
Mul(a, b) == IF a = NaN \/ b = NaN THEN NaN ELSE Num(a.m * b.m, a.e + b.e)

\* A plausible slip: cutting the digits past the second decimal instead of rounding.
Truncate2(n) ==
    IF n = NaN \/ n.e <= 2 THEN n ELSE Num(n.m \div Pow10(n.e - 2), 2)

\* Series.round(2): to the nearest hundredth, a tie to the even neighbour.
Round2(n) ==
    IF n = NaN \/ n.e <= 2 THEN n
    ELSE LET d == Pow10(n.e - 2)
             q == n.m \div d
             r == n.m % d
             up == 2 * r > d \/ (2 * r = d /\ q % 2 = 1)
         IN  Num(IF up THEN q + 1 ELSE q, 2)

-----------------------------------------------------------------------------
(* Cell texts and numeric coercion *)

Digits == <<"0", "1", "2", "3", "4", "5", "6", "7", "8", "9">>
IsDigit(c) == \E i \in 1..10 : Digits[i] = c
DigitVal(c) == (CHOOSE i \in 1..10 : Digits[i] = c) - 1

\* A plausible slip: the separators are left in the text.
KeepCommas(s) == s

\* Series.str.replace(',', ''): every comma is removed.
StrReplaceComma(s) == SelectSeq(s, LAMBDA c : c # ",")

\* The scan of a decimal numeral, left to right from position i: mant is the
\* digits read so far, frac the number of them after the point.
RECURSIVE ParseFrom(_, _, _, _, _, _)
ParseFrom(s, i, mant, frac, seenDot, seenDigit) ==
    IF i > Len(s) THEN (IF seenDigit THEN Num(mant, frac) ELSE NaN)
    ELSE IF IsDigit(s[i])
         THEN ParseFrom(s, i + 1, 10 * mant + DigitVal(s[i]),
                        IF seenDot THEN frac + 1 ELSE frac, seenDot, TRUE)
    ELSE IF s[i] = "." /\ ~seenDot
         THEN ParseFrom(s, i + 1, mant, frac, TRUE, seenDigit)
    ELSE NaN

\* pd.to_numeric(..., errors='coerce') of one text: its number, or missing.
ToNumeric(s) == ParseFrom(s, 1, 0, 0, FALSE, FALSE)

-----------------------------------------------------------------------------
(* Values shared by the stages *)

\* Python's None, as a DataFrame reference: heap references are 1, 2, ...
None == 0

NoTable == [cols |-> <<"no such table">>, rows |-> <<>>]
NoFile == [header |-> <<"no such file">>, lines |-> <<>>]
NoResults == [returned |-> "None", labels |-> <<>>, tables |-> <<>>]

DataFrame(columns, rws) == [cols |-> columns, rows |-> rws]

Range(f) == {f[i] : i \in DOMAIN f}

\* One entry of calls: the function, the DataFrame reference passed (None when it
\* takes no argument) and what it returned.
Call(name, x, returned) == [fn |-> name, arg |-> x, ret |-> returned]

-----------------------------------------------------------------------------
(* extract *)

\* 'Market cap' in header.get_text(), over the header texts of the pages modelled.
HasMarketCap(h) ==
    h \in {"Market cap (US$ billion)", "Market cap (US$ billion)\n", "Market cap"}

\* df.columns.str.strip(), over the header texts of the pages modelled.
Strip(h) ==
    IF h = "Market cap (US$ billion)\n" THEN "Market cap (US$ billion)"
    ELSE IF h = "Bank name\n" THEN "Bank name"
    ELSE h

\* The loop over soup.find_all('table', {'class': 'wikitable'}): the index of the
\* first wikitable one of whose header cells mentions 'Market cap', or 0.
TargetTable(tables) ==
    LET matches == {i \in 1..Len(tables) :
                      /\ tables[i].class = "wikitable"
                      /\ \E k \in 1..Len(tables[i].th) : HasMarketCap(tables[i].th[k])}
    IN  IF matches = {} THEN 0 ELSE CHOOSE i \in matches : \A j \in matches : i <= j

\* One row of df_clean: the two columns kept and renamed, the market cap with
\* its commas removed and coerced to a number.
CleanRow(r) ==
    [c \in {"Name", "MC_USD_Billion"} |->
        IF c = "Name" THEN r.bank ELSE ToNumeric(StrReplaceComma(r.cap))]

\* What extract does with the fetched page: whether it returns a DataFrame,
\* that DataFrame, and the messages it logs.
ExtractOutcome(pg) ==
    LET started == <<"Starting data extraction from Wikipedia",
                     "Making HTTP request to Wikipedia">>
        failed(msgs) == [ok |-> FALSE, value |-> DataFrame(<<>>, <<>>), msgs |-> msgs]
    IN  IF pg.status = "error"
        THEN failed(started \o <<"Error in data extraction">>)
        ELSE LET i == TargetTable(pg.tables)
                 locating == started \o <<"Locating market capitalization table">>
             IN  IF i = 0
                 THEN failed(locating \o <<"Error: Target table not found!">>)
                 ELSE LET t == pg.tables[i]
                          columns == {Strip(t.th[k]) : k \in 1..Len(t.th)}
                          found == locating \o <<"Target table found - processing data",
                                                 "Available columns">>
                      IN  IF ~({"Bank name", "Market cap (US$ billion)"} \subseteq columns)
                          THEN failed(found \o <<"Error in data extraction">>)
                          ELSE [ok |-> TRUE,
                                value |-> DataFrame(<<"Name", "MC_USD_Billion">>,
                                              [k \in 1..Len(t.rows) |-> CleanRow(t.rows[k])]),
                                msgs |-> found \o <<"Data extraction completed successfully">>]

\* df = extract(): a new DataFrame object on success.
extract ==
    LET o == ExtractOutcome(page)
    IN  /\ heap' = IF o.ok THEN Append(heap, o.value) ELSE heap
        /\ df' = IF o.ok THEN Len(heap) + 1 ELSE None
        /\ log' = log \o o.msgs
        /\ calls' = Append(calls, Call("extract", None, IF o.ok THEN "Dataset" ELSE "None"))
        /\ UNCHANGED <<page, ratesFile, df_transformed, db_success, results, table,
                       csvFile, conns, console>>

-----------------------------------------------------------------------------
(* transform *)

required_currencies == {"EUR", "GBP", "INR"}

available_currencies(rf) == {rf.rows[i].Currency : i \in 1..Len(rf.rows)}

\* dict(zip(Currency, Rate)): a currency listed twice keeps its last rate.
exchange_rates(rf) ==
    [c \in available_currencies(rf) |->
        LET last == CHOOSE i \in 1..Len(rf.rows) :
                       /\ rf.rows[i].Currency = c
                       /\ \A j \in 1..Len(rf.rows) : rf.rows[j].Currency = c => j <= i
        IN  rf.rows[last].Rate]

\* The rates are read and hold all the required currencies: lines 97-107 raise
\* nothing and the check of line 102 passes.
RatesLoaded(rf) ==
    /\ rf.readable
    /\ {"Currency", "Rate"} \subseteq rf.cols
    /\ required_currencies \subseteq available_currencies(rf)

\* df[c] = values: an existing column is overwritten in place, a new one is
\* appended after the others.
SetColumn(d, c, values) ==
    DataFrame(IF c \in Range(d.cols) THEN d.cols ELSE Append(d.cols, c),
              [k \in 1..Len(d.rows) |->
                  [x \in DOMAIN d.rows[k] \cup {c} |->
                      IF x = c THEN values[k] ELSE d.rows[k][x]]])

\* (df['MC_USD_Billion'] * rate).round(2)
Converted(d, rate) ==
    [k \in 1..Len(d.rows) |-> Round2(Mul(d.rows[k]["MC_USD_Billion"], rate))]

\* Lines 110-112: the three converted columns, in the order GBP, EUR, INR.
AddColumns(d, rates) ==
    LET d1 == SetColumn(d, "MC_GBP_Billion", Converted(d, rates["GBP"]))
        d2 == SetColumn(d1, "MC_EUR_Billion", Converted(d1, rates["EUR"]))
    IN  SetColumn(d2, "MC_INR_Billion", Converted(d2, rates["INR"]))

\* A plausible slip: each column is added as soon as its rate is at hand, before
\* the check that all the required rates are there.
FrameAfterEagerTransform(d, rf) ==
    IF ~(rf.readable /\ {"Currency", "Rate"} \subseteq rf.cols) THEN d
    ELSE LET rates == exchange_rates(rf)
             d1 == IF "GBP" \in DOMAIN rates
                   THEN SetColumn(d, "MC_GBP_Billion", Converted(d, rates["GBP"])) ELSE d
             d2 == IF "EUR" \in DOMAIN rates
                   THEN SetColumn(d1, "MC_EUR_Billion", Converted(d1, rates["EUR"])) ELSE d1
         IN  IF "INR" \in DOMAIN rates
             THEN SetColumn(d2, "MC_INR_Billion", Converted(d2, rates["INR"])) ELSE d2

\* The DataFrame object passed to transform, as the call leaves it.
FrameAfterTransform(d, rf) ==
    IF RatesLoaded(rf) THEN AddColumns(d, exchange_rates(rf)) ELSE d

\* The messages transform logs for a DataFrame.
TransformMessages(rf) ==
    LET reading == <<"Starting data transformation", "Reading exchange rates from">>
    IN  IF ~rf.readable \/ "Currency" \notin rf.cols
        THEN reading \o <<"Error reading exchange rates CSV">>
        ELSE IF ~(required_currencies \subseteq available_currencies(rf))
        THEN reading \o <<"Error: Missing exchange rates for currencies">>
        ELSE IF "Rate" \notin rf.cols
        THEN reading \o <<"Error reading exchange rates CSV">>
        ELSE reading \o <<"Exchange rates loaded successfully",
                          "Data transformation completed successfully">>

\* df_transformed = transform(x): the object x refers to is changed in place
\* and x itself is returned.
transform(x) ==
    /\ IF x = None
       THEN /\ log' = Append(log, "Error: No dataframe to transform")
            /\ df_transformed' = None
            /\ heap' = heap
       ELSE /\ log' = log \o TransformMessages(ratesFile)
            /\ df_transformed' = IF RatesLoaded(ratesFile) THEN x ELSE None
            /\ heap' = [heap EXCEPT ![x] = FrameAfterTransform(heap[x], ratesFile)]
    /\ calls' = Append(calls, Call("transform", x,
                                   IF df_transformed' = None THEN "None" ELSE "Dataset"))
    /\ UNCHANGED <<page, ratesFile, df, db_success, results, table, csvFile, conns,
                   console>>

-----------------------------------------------------------------------------
(* load_to_csv *)

\* df.to_csv(path, index=False): a header line, then one line per row with the
\* values in column order.
ToCsv(d) ==
    [header |-> d.cols,
     lines |-> [k \in 1..Len(d.rows) |-> [j \in 1..Len(d.cols) |-> d.rows[k][d.cols[j]]]]]

\* load_to_csv(x); what it returns is recorded with the call.
load_to_csv(x) ==
    /\ \/ /\ x = None
          /\ log' = Append(log, "Error: No dataframe to save to CSV")
          /\ csvFile' = csvFile
          /\ calls' = Append(calls, Call("load_to_csv", x, "False"))
       \/ /\ x # None
          /\ log' = log \o <<"Starting CSV file export", "Data successfully exported">>
          /\ csvFile' = ToCsv(heap[x])
          /\ calls' = Append(calls, Call("load_to_csv", x, "True"))
       \/ /\ x # None       \* to_csv raises: the file is untouched or left empty
          /\ log' = log \o <<"Starting CSV file export", "Error saving to CSV">>
          /\ csvFile' \in {csvFile, ToCsv(DataFrame(<<>>, <<>>))}
          /\ calls' = Append(calls, Call("load_to_csv", x, "False"))
    /\ UNCHANGED <<page, ratesFile, heap, df, df_transformed, db_success, results,
                   table, conns, console>>

-----------------------------------------------------------------------------
(* load_to_db *)

\* sqlite3.connect and conn.close, on the number of connections held open.
Connect(c) == c + 1
Close(c) == c - 1

\* A plausible slip: if_exists='append', the new rows after the old ones.
ToSqlAppend(old, d) ==
    IF old = NoTable THEN d ELSE DataFrame(old.cols, old.rows \o d.rows)

\* df.to_sql('Largest_banks', conn, if_exists='replace', index=False): the table
\* is dropped if it exists, then created and filled from the DataFrame.
ToSql(old, d) == d

\* db_success = load_to_db(x)
load_to_db(x) ==
    /\ \/ /\ x = None
          /\ log' = Append(log, "Error: No dataframe to load to database")
          /\ UNCHANGED <<table, conns>>
          /\ db_success' = FALSE
       \/ /\ x # None       \* sqlite3.connect raises: no connection was opened
          /\ log' = log \o <<"Starting database loading process",
                             "Error in database loading">>
          /\ UNCHANGED <<table, conns>>
          /\ db_success' = FALSE
       \/ /\ x # None       \* to_sql raises: line 158 is skipped
          /\ log' = log \o <<"Starting database loading process",
                             "Error in database loading">>
          /\ table' \in {table, NoTable, DataFrame(heap[x].cols, <<>>)}
          /\ conns' = Connect(conns)
          /\ db_success' = FALSE
       \/ /\ x # None
          /\ log' = log \o <<"Starting database loading process",
                             "Data successfully loaded">>
          /\ table' = ToSql(table, heap[x])
          /\ conns' = Close(Connect(conns))
          /\ db_success' = TRUE
    /\ calls' = Append(calls, Call("load_to_db", x, IF db_success' THEN "True" ELSE "False"))
    /\ UNCHANGED <<page, ratesFile, heap, df, df_transformed, results, csvFile,
                   console>>

-----------------------------------------------------------------------------
(* run_queries *)

QueryLabels == <<"Market Cap Analysis", "Average by Currency", "Bank Size Comparison">>

\* The columns of Largest_banks each query names.
QueryColumns ==
    <<{"MC_EUR_Billion"},
      {"MC_EUR_Billion", "MC_USD_Billion", "MC_GBP_Billion", "MC_INR_Billion"},
      {"Name", "MC_EUR_Billion"}>>

\* pd.read_sql_query(query_q, conn) raises on a missing table or column.
QueryRaises(q, tbl) == tbl = NoTable \/ ~(QueryColumns[q] \subseteq Range(tbl.cols))

\* The shape of a query's result: the two aggregates yield one row, the
\* comparison one row per bank.
ReadSqlQuery(q, tbl) ==
    [query |-> q, nrows |-> IF q = 3 THEN Len(tbl.rows) ELSE 1]

\* The query that raises, 0 if none does: the first the table cannot answer,
\* or the one the store fails on (fault, 0 for no fault).
FailingQuery(tbl, fault) ==
    LET bad == {q \in 1..3 : QueryRaises(q, tbl) \/ q = fault}
    IN  IF bad = {} THEN 0 ELSE CHOOSE q \in bad : \A r \in bad : q <= r

\* A plausible slip: each result is printed as soon as its query returns.
PrintedEagerly(tbl, failing) ==
    [q \in 1..(IF failing = 0 THEN 3 ELSE failing - 1) |->
        [kind |-> "query", label |-> QueryLabels[q], lines |-> ReadSqlQuery(q, tbl).nrows]]

\* What the loop of lines 210-212 prints: it is reached only when all three
\* queries returned.
Printed(tbl, failing) ==
    IF failing # 0 THEN <<>>
    ELSE [q \in 1..3 |->
            [kind |-> "query", label |-> QueryLabels[q], lines |-> ReadSqlQuery(q, tbl).nrows]]

\* run_queries()
run_queries ==
    /\ \/ /\ log' = log \o <<"Starting database queries", "Error in database queries">>
          /\ UNCHANGED <<conns, console>>       \* sqlite3.connect raises
          /\ results' = NoResults
       \/ \E fault \in 0..3 :
            LET failing == FailingQuery(table, fault)
            IN  /\ console' = console \o Printed(table, failing)
                /\ IF failing # 0
                   THEN /\ log' = log \o <<"Starting database queries",
                                           "Error in database queries">>
                        /\ conns' = Connect(conns)       \* line 215 is skipped
                        /\ results' = NoResults
                   ELSE /\ log' = log \o <<"Starting database queries",
                                           "Database queries completed successfully">>
                        /\ conns' = Close(Connect(conns))
                        /\ results' = [returned |-> "dict", labels |-> QueryLabels,
                                       tables |-> [q \in 1..3 |-> ReadSqlQuery(q, table)]]
    /\ calls' = Append(calls, Call("run_queries", None, results'.returned))
    /\ UNCHANGED <<page, ratesFile, heap, df, df_transformed, db_success, table,
                   csvFile>>

-----------------------------------------------------------------------------
(* verify_logs *)

\* verify_logs(); what it returns is recorded with the call.
verify_logs ==
    /\ \/ /\ console' = Append(console, [kind |-> "log", label |-> "Log file contents:",
                                         lines |-> Len(log)])
          /\ calls' = Append(calls, Call("verify_logs", None, "True"))
       \/ /\ console' = Append(console, [kind |-> "error", label |-> "Error reading log file",
                                         lines |-> 0])
          /\ calls' = Append(calls, Call("verify_logs", None, "False"))
    /\ UNCHANGED <<page, ratesFile, heap, df, df_transformed, db_success, results,
                   table, csvFile, conns, log>>

-----------------------------------------------------------------------------
(* main *)

\* A plausible slip: the result of transform is not checked before loading.
UncheckedTransform(r) == "call_load_to_db"

\* Line 244: if df is not None
AfterExtract(r) == IF r # None THEN "call_transform" ELSE "fail_extract"

\* Line 247: if df_transformed is not None
AfterTransform(r) == IF r # None THEN "call_load_to_db" ELSE "fail_transform"

\* Line 250: if db_success
AfterLoadToDb(ok) == IF ok THEN "call_run_queries" ELSE "call_verify_logs"

MainStart ==
    /\ pc = "start"
    /\ log' = Append(log, "ETL Process Started")
    /\ pc' = "call_extract"
    /\ UNCHANGED <<page, ratesFile, heap, df, df_transformed, db_success, results,
                   table, csvFile, conns, console, calls>>

MainExtract ==
    /\ pc = "call_extract"
    /\ extract
    /\ pc' = AfterExtract(df')

MainTransform ==
    /\ pc = "call_transform"
    /\ transform(df)
    /\ pc' = AfterTransform(df_transformed')

MainLoadToDb ==
    /\ pc = "call_load_to_db"
    /\ load_to_db(df_transformed)
    /\ pc' = AfterLoadToDb(db_success')

MainRunQueries ==
    /\ pc = "call_run_queries"
    /\ run_queries
    /\ pc' = "call_verify_logs"

MainVerifyLogs ==
    /\ pc = "call_verify_logs"
    /\ verify_logs
    /\ pc' = "log_completed"

MainCompleted ==
    /\ pc = "log_completed"
    /\ log' = Append(log, "ETL Process Completed Successfully")
    /\ pc' = "done"
    /\ UNCHANGED <<page, ratesFile, heap, df, df_transformed, db_success, results,
                   table, csvFile, conns, console, calls>>

MainFailTransform ==
    /\ pc = "fail_transform"
    /\ log' = Append(log, "ETL Process Failed at Transformation Stage")
    /\ pc' = "done"
    /\ UNCHANGED <<page, ratesFile, heap, df, df_transformed, db_success, results,
                   table, csvFile, conns, console, calls>>

MainFailExtract ==
    /\ pc = "fail_extract"
    /\ log' = Append(log, "ETL Process Failed at Extraction Stage")
    /\ pc' = "done"
    /\ UNCHANGED <<page, ratesFile, heap, df, df_transformed, db_success, results,
                   table, csvFile, conns, console, calls>>

-----------------------------------------------------------------------------
(* The functions called one by one by a client other than main *)

Refs == {None} \cup (1..Len(heap))

CallExtract ==
    /\ pc = "harness" /\ Len(calls) < MaxCalls
    /\ extract
    /\ pc' = pc

CallTransform ==
    /\ pc = "harness" /\ Len(calls) < MaxCalls
    /\ \E x \in Refs : transform(x)
    /\ pc' = pc

CallLoadToCsv ==
    /\ pc = "harness" /\ Len(calls) < MaxCalls
    /\ \E x \in Refs : load_to_csv(x)
    /\ pc' = pc

CallLoadToDb ==
    /\ pc = "harness" /\ Len(calls) < MaxCalls
    /\ \E x \in Refs : load_to_db(x)
    /\ pc' = pc

CallRunQueries ==
    /\ pc = "harness" /\ Len(calls) < MaxCalls
    /\ run_queries
    /\ pc' = pc

CallVerifyLogs ==
    /\ pc = "harness" /\ Len(calls) < MaxCalls
    /\ verify_logs
    /\ pc' = pc

-----------------------------------------------------------------------------
(* The pages, rate files and stores the runs start from *)

BankNames == <<"Bank A", "Bank B", "Bank C", "Bank D", "Bank E", "Bank F">>

\* The market-cap cell texts of the runs of main.
SampleCells ==
    {<<"1", "0", "0">>, <<"1", ".", "1">>, <<"1", ",", "2", "3", "4", ".", "5">>, <<"x">>}

CellAlphabet == {"1", ",", ".", "x"}

\* Every text over CellAlphabet of at most MaxCellLen characters, and the samples.
CellTexts ==
    SampleCells \cup UNION {[1..n -> CellAlphabet] : n \in 0..MaxCellLen}

\* The data rows of a table: the bank of row k, and the cell texts f[k].
TableRows(f) == [k \in DOMAIN f |-> [bank |-> BankNames[k], cap |-> f[k]]]

AssetsTable ==
    [class |-> "wikitable", th |-> <<"Rank", "Bank name", "Total assets">>, rows |-> <<>>]

PlainCapTable ==
    [class |-> "sortable", th |-> <<"Bank name", "Market cap (US$ billion)">>,
     rows |-> TableRows(<< <<"7">> >>)]

NoNameTable ==
    [class |-> "wikitable", th |-> <<"Rank", "Market cap">>, rows |-> <<>>]

CapTable(rws) ==
    [class |-> "wikitable",
     th |-> <<"Rank\n", "Bank name\n", "Market cap (US$ billion)\n">>, rows |-> rws]

ErrorPage == [status |-> "error", tables |-> <<>>]
NoTablePage == [status |-> "ok", tables |-> <<AssetsTable, PlainCapTable>>]
BadColumnsPage == [status |-> "ok", tables |-> <<NoNameTable, CapTable(<<>>)>>]

PageWith(rws) ==
    [status |-> "ok",
     tables |-> <<AssetsTable, PlainCapTable, CapTable(rws),
                  CapTable(TableRows(<< <<"9">> >>))>>]

Pages ==
    {ErrorPage, NoTablePage, BadColumnsPage}
    \cup {PageWith(TableRows(f)) : f \in UNION {[1..n -> SampleCells] : n \in 0..MaxBanks}}

\* Pages whose table holds one cell of CellTexts among sample cells.
ExtractPages ==
    {ErrorPage, NoTablePage, BadColumnsPage}
    \cup {PageWith(TableRows([f EXCEPT ![k] = c])) :
            f \in UNION {[1..n -> SampleCells] : n \in 1..MaxBanks},
            k \in 1..MaxBanks, c \in CellTexts}

RateEntries ==
    {[Currency |-> "EUR", Rate |-> Num(93, 2)], [Currency |-> "GBP", Rate |-> Num(80, 2)],
     [Currency |-> "GBP", Rate |-> Num(805, 3)], [Currency |-> "INR", Rate |-> Num(821, 1)]}

FullRates ==
    <<[Currency |-> "EUR", Rate |-> Num(93, 2)], [Currency |-> "GBP", Rate |-> Num(80, 2)],
      [Currency |-> "INR", Rate |-> Num(821, 1)]>>

RateFiles ==
    {[readable |-> FALSE, cols |-> {}, rows |-> <<>>],
     [readable |-> TRUE, cols |-> {"Currency"}, rows |-> FullRates],
     [readable |-> TRUE, cols |-> {"Rate"}, rows |-> FullRates]}
    \cup {[readable |-> TRUE, cols |-> {"Currency", "Rate"}, rows |-> r] :
            r \in UNION {[1..n -> RateEntries] : n \in 0..MaxRateRows}}

\* What Largest_banks holds before the run: nothing, or the rows of an earlier run.
OldTable ==
    DataFrame(<<"Name", "MC_USD_Billion", "MC_GBP_Billion", "MC_EUR_Billion", "MC_INR_Billion">>,
              << [c \in {"Name", "MC_USD_Billion", "MC_GBP_Billion", "MC_EUR_Billion",
                         "MC_INR_Billion"} |-> IF c = "Name" THEN "Old Bank" ELSE Num(5, 0)] >>)

PriorTables == {NoTable, OldTable}

Fresh(start) ==
    /\ pc = start
    /\ heap = <<>>
    /\ df = None
    /\ df_transformed = None
    /\ db_success = FALSE
    /\ results = NoResults
    /\ csvFile = NoFile
    /\ conns = 0
    /\ log = <<>>
    /\ console = <<>>
    /\ calls = <<>>

\* One run of main.
Init ==
    /\ page \in Pages
    /\ ratesFile \in RateFiles
    /\ table \in PriorTables
    /\ Fresh("start")

Next ==
    \/ MainStart
    \/ MainExtract
    \/ MainTransform
    \/ MainLoadToDb
    \/ MainRunQueries
    \/ MainVerifyLogs
    \/ MainCompleted
    \/ MainFailTransform
    \/ MainFailExtract

Spec == Init /\ [][Next]_vars

\* The functions called in any order, at most MaxCalls calls.
InitCalls ==
    /\ page \in {PageWith(TableRows(<< <<"1", "0", "0">>, <<"1", ".", "1">> >>)), ErrorPage}
    /\ ratesFile \in {r \in RateFiles : r.rows = FullRates /\ r.cols = {"Currency", "Rate"}}
    /\ table \in PriorTables
    /\ Fresh("harness")

NextCalls ==
    \/ CallExtract
    \/ CallTransform
    \/ CallLoadToCsv
    \/ CallLoadToDb
    \/ CallRunQueries
    \/ CallVerifyLogs

SpecCalls == InitCalls /\ [][NextCalls]_vars

\* extract alone, over the pages of ExtractPages.
InitExtract ==
    /\ page \in ExtractPages
    /\ ratesFile \in {r \in RateFiles : r.rows = FullRates /\ r.cols = {"Currency", "Rate"}}
    /\ table = NoTable
    /\ Fresh("harness")

NextExtract == CallExtract

SpecExtract == InitExtract /\ [][NextExtract]_vars

-----------------------------------------------------------------------------
(* Properties *)

Called(name, returned) ==
    \E i \in 1..Len(calls) : calls[i].fn = name /\ calls[i].ret = returned

CalledBefore(i, name, returned) ==
    \E j \in 1..(i - 1) : calls[j].fn = name /\ calls[j].ret = returned

StageRank(name) ==
    CASE name = "extract" -> 1
      [] name = "transform" -> 2
      [] name \in {"load_to_db", "load_to_csv"} -> 3
      [] name = "run_queries" -> 4
      [] OTHER -> 5

StageCalls == SelectSeq(calls, LAMBDA c : c.fn # "verify_logs")

\* C1: in a run of main, transform is called only after extract returned a
\* Dataset, a load only after transform returned a Dataset, run_queries only
\* after load_to_db returned true; the stages are called at most once each, in
\* the order extract, transform, load, report.
C1_StagesGated ==
    /\ \A i \in 1..Len(calls) :
         /\ calls[i].fn = "transform" => CalledBefore(i, "extract", "Dataset")
         /\ calls[i].fn \in {"load_to_db", "load_to_csv"}
               => CalledBefore(i, "transform", "Dataset")
         /\ calls[i].fn = "run_queries" => CalledBefore(i, "load_to_db", "True")
    /\ \A i, j \in 1..Len(StageCalls) :
         i < j => StageRank(StageCalls[i].fn) < StageRank(StageCalls[j].fn)

\* A run that ended after transform returned absent: nothing was called after it.
C1_Witness ==
    /\ pc = "done"
    /\ Len(calls) = 2
    /\ calls[1] = Call("extract", None, "Dataset")
    /\ calls[2] = Call("transform", 1, "None")

\* C2: when extract, transform or load_to_db returns an absent/failure result,
\* the run's log ends with an entry naming the failed stage and never holds
\* 'ETL Process Completed Successfully'.
C2_FailureEndsInFailureLog ==
    (/\ pc = "done"
     /\ \/ Called("extract", "None")
        \/ Called("transform", "None")
        \/ Called("load_to_db", "False"))
    => /\ log[Len(log)] \in {"ETL Process Failed at Extraction Stage",
                             "ETL Process Failed at Transformation Stage",
                             "ETL Process Failed at Load Stage"}
       /\ \A i \in 1..Len(log) : log[i] # "ETL Process Completed Successfully"

\* C3: in a run of main in which extract and transform both return a Dataset,
\* both load_to_csv and load_to_db are called on the transformed Dataset.
C3_BothSinksInvoked ==
    (pc = "done" /\ Called("extract", "Dataset") /\ Called("transform", "Dataset"))
    => /\ \E i \in 1..Len(calls) :
            calls[i].fn = "load_to_csv" /\ calls[i].arg = df_transformed
       /\ \E i \in 1..Len(calls) :
            calls[i].fn = "load_to_db" /\ calls[i].arg = df_transformed

ConvertedColumn ==
    [c \in required_currencies |->
        CASE c = "EUR" -> "MC_EUR_Billion"
          [] c = "GBP" -> "MC_GBP_Billion"
          [] c = "INR" -> "MC_INR_Billion"]

\* r is usd * rate rounded to two decimals: a number of at most two decimals
\* no further than half a hundredth from the exact product; missing when usd is.
IsRoundedProduct(r, usd, rate) ==
    IF usd = NaN THEN r = NaN
    ELSE LET pe == usd.e + rate.e
             exact == usd.m * rate.m * 100
             got == r.m * Pow10(pe + 2 - r.e)
             diff == IF got >= exact THEN got - exact ELSE exact - got
         IN  r # NaN /\ r.e <= 2 /\ 2 * diff <= Pow10(pe)

\* C4: with a RateTable holding EUR, GBP and INR, transform returns a Dataset
\* with the same rows in the same order in which every converted field is
\* round(MC_USD_Billion * rate, 2), missing where MC_USD_Billion is missing.
C4_TransformConverts ==
    [][(pc = "call_transform" /\ RatesLoaded(ratesFile))
       => /\ df_transformed' # None
          /\ LET in == heap[df]
                 out == heap'[df_transformed']
                 rates == exchange_rates(ratesFile)
             IN  /\ Len(out.rows) = Len(in.rows)
                 /\ \A k \in 1..Len(in.rows) :
                      /\ out.rows[k]["Name"] = in.rows[k]["Name"]
                      /\ out.rows[k]["MC_USD_Billion"] = in.rows[k]["MC_USD_Billion"]
                      /\ \A c \in required_currencies :
                           IsRoundedProduct(out.rows[k][ConvertedColumn[c]],
                                            in.rows[k]["MC_USD_Billion"], rates[c])]_vars

\* The scenario of the claim (USD 100.0 at EUR 0.93, GBP 0.80, INR 82.1 gives
\* 93.0, 80.0, 8210.0), next to a row whose market cap is missing.
C4_Witness ==
    /\ pc = "call_load_to_db"
    /\ ratesFile.rows = FullRates
    /\ \E k \in 1..Len(heap[df_transformed].rows) :
         LET row == heap[df_transformed].rows[k]
         IN  /\ row["MC_USD_Billion"] = [m |-> 100, e |-> 0]
             /\ row["MC_EUR_Billion"] = [m |-> 93, e |-> 0]
             /\ row["MC_GBP_Billion"] = [m |-> 80, e |-> 0]
             /\ row["MC_INR_Billion"] = [m |-> 8210, e |-> 0]
    /\ \E k \in 1..Len(heap[df_transformed].rows) :
         LET row == heap[df_transformed].rows[k]
         IN  /\ row["MC_USD_Billion"] = NaN
             /\ row["MC_EUR_Billion"] = NaN
             /\ row["MC_GBP_Billion"] = NaN
             /\ row["MC_INR_Billion"] = NaN

\* The rate source cannot be read or lacks a required code.
RatesUnusable(rf) ==
    \/ ~rf.readable
    \/ "Currency" \notin rf.cols
    \/ \E c \in {"EUR", "GBP", "INR"} : \A i \in 1..Len(rf.rows) : rf.rows[i].Currency # c

\* C5: when the rate source cannot be read or lacks one of EUR, GBP, INR,
\* transform returns absent and does nothing but log: the Dataset passed is
\* unchanged and no store, file or console output is touched.
C5_TransformFailsCleanly ==
    [][(pc = "call_transform" /\ RatesUnusable(ratesFile))
       => /\ df_transformed' = None
          /\ heap' = heap
          /\ UNCHANGED <<df, table, csvFile, conns, console, results>>
          /\ Len(log') > Len(log)]_vars

\* transform returned absent for a rate file that holds GBP and not all three,
\* on a Dataset with rows.
C5_Witness ==
    /\ pc = "fail_transform"
    /\ ratesFile.readable
    /\ ratesFile.cols = {"Currency", "Rate"}
    /\ \E i \in 1..Len(ratesFile.rows) : ratesFile.rows[i].Currency = "GBP"
    /\ Len(heap[df].rows) > 0

\* C6: after any call to transform, the Dataset produced by extract and passed
\* in still has exactly the columns Name and MC_USD_Billion.
C6_TransformLeavesInputUnchanged ==
    (df # None /\ \E i \in 1..Len(calls) : calls[i].fn = "transform")
    => heap[df].cols = <<"Name", "MC_USD_Billion">>

LastCall == calls'[Len(calls')]

\* C7: a successful load_to_db leaves in Largest_banks exactly the columns and
\* rows of the Dataset passed to it, whatever the table held before; so after
\* any sequence of successful loads the table holds one copy of the last one.
C7_LoadReplaces ==
    [][(/\ Len(calls') = Len(calls) + 1
        /\ LastCall.fn = "load_to_db"
        /\ LastCall.ret = "True")
       => table' = heap[LastCall.arg]]_vars

\* The same Dataset, with rows, loaded twice in a row with success.
C7_Witness ==
    /\ Len(calls) = 3
    /\ calls[2] = Call("load_to_db", 1, "True")
    /\ calls[3] = Call("load_to_db", 1, "True")
    /\ Len(heap[1].rows) > 0
    /\ table = heap[1]

RECURSIVE IntOf(_)
IntOf(ds) ==
    IF ds = <<>> THEN 0
    ELSE 10 * IntOf(SubSeq(ds, 1, Len(ds) - 1)) + DigitVal(ds[Len(ds)])

\* The number a cell text denotes once its thousands separators are dropped:
\* digits around at most one point, with at least one digit; missing otherwise.
DenotedNumber(s) ==
    LET digits == SelectSeq(s, IsDigit)
        others == SelectSeq(s, LAMBDA c : ~IsDigit(c) /\ c # ",")
        point == IF others = <<".">> THEN CHOOSE i \in 1..Len(s) : s[i] = "." ELSE Len(s)
        decimals == Cardinality({i \in (point + 1)..Len(s) : IsDigit(s[i])})
        whole == [m |-> IntOf(digits), e |-> decimals]
    IN  IF Len(digits) = 0 \/ Len(others) > 1 \/ (Len(others) = 1 /\ others # <<".">>)
        THEN NaN
        ELSE IF \E k \in 0..decimals :
                  whole.m % Pow10(k) = 0 /\ (k = decimals \/ whole.m % Pow10(k + 1) # 0)
             THEN LET k == CHOOSE k \in 0..decimals :
                             whole.m % Pow10(k) = 0
                             /\ (k = decimals \/ whole.m % Pow10(k + 1) # 0)
                  IN  [m |-> whole.m \div Pow10(k), e |-> decimals - k]
             ELSE whole

\* The selected table of the page has the two columns extract keeps.
SelectedTableValid ==
    /\ page.status = "ok"
    /\ TargetTable(page.tables) # 0
    /\ LET t == page.tables[TargetTable(page.tables)]
       IN  \A h \in {"Bank name", "Market cap (US$ billion)"} :
              \E k \in 1..Len(t.th) : Strip(t.th[k]) = h

\* C8: for a selected table with n data rows (and the two columns extract
\* keeps), extract returns a Dataset of exactly n rows in table order with
\* exactly the columns Name and MC_USD_Billion; a market cap with thousands
\* separators becomes its number, a non-numeric one becomes missing in its row
\* alone.
C8_ExtractToleratesBadValues ==
    (Len(calls) > 0 /\ calls[Len(calls)].fn = "extract" /\ SelectedTableValid)
    => /\ df # None
       /\ calls[Len(calls)].ret = "Dataset"
       /\ LET t == page.tables[TargetTable(page.tables)]
              d == heap[df]
          IN  /\ d.cols = <<"Name", "MC_USD_Billion">>
              /\ Len(d.rows) = Len(t.rows)
              /\ \A k \in 1..Len(t.rows) :
                   /\ DOMAIN d.rows[k] = {"Name", "MC_USD_Billion"}
                   /\ d.rows[k]["Name"] = t.rows[k].bank
                   /\ d.rows[k]["MC_USD_Billion"] = DenotedNumber(t.rows[k].cap)

\* "1,234.5" extracted as 1234.5 in one row, next to a row whose text is not a
\* number and whose market cap is missing.
C8_Witness ==
    /\ Len(calls) > 0
    /\ df # None
    /\ LET t == page.tables[TargetTable(page.tables)]
       IN  /\ Len(t.rows) = 2
           /\ t.rows[1].cap = <<"1", ",", "2", "3", "4", ".", "5">>
           /\ heap[df].rows[1]["MC_USD_Billion"] = [m |-> 12345, e |-> 1]
           /\ t.rows[2].cap = <<"1", "x">>
           /\ heap[df].rows[2]["MC_USD_Billion"] = NaN

QueryItems == SelectSeq(console, LAMBDA item : item.kind = "query")

\* C9: run_queries surfaces all three results or none: when it returns absent
\* it has logged the error and printed no result; when it returns a mapping,
\* the mapping holds exactly the three labelled tables, each printed once.
C9_AllResultsOrNone ==
    /\ Called("run_queries", "None")
         => /\ QueryItems = <<>>
            /\ results = NoResults
            /\ \E i \in 1..Len(log) : log[i] = "Error in database queries"
    /\ Called("run_queries", "dict")
         => /\ results.labels = QueryLabels
            /\ DOMAIN results.tables = 1..3
            /\ [i \in 1..Len(QueryItems) |-> QueryItems[i].label] = QueryLabels

\* run_queries returned absent after it had connected: a query raised.
C9_Witness ==
    /\ Called("run_queries", "None")
    /\ conns = 1
    /\ pc = "done"

\* C10: no call of load_to_db or run_queries returns leaving its connection open.
C10_ConnectionsClosed == conns = 0

====
